---- MODULE Spec2Model ----
(***************************************************************************)
(* Notes service (src/main.js, src/unnamed/part_000): an Express server    *)
(* that keeps every note as the file <name>.txt under CACHE_DIR.  The two  *)
(* files differ in where CACHE_DIR comes from and in the text of some      *)
(* responses; the names and line numbers here are those of src/main.js.    *)
(*                                                                         *)
(* A JavaScript string is modelled as a sequence of UTF-16 code units,     *)
(* each unit a one-token string; a file's content is the sequence of       *)
(* Unicode scalar values its UTF-8 bytes encode; a path is the sequence    *)
(* of its components, a component being a sequence of code units.          *)
(***************************************************************************)
EXTENDS Integers, Sequences, FiniteSets, TLC

VARIABLES
    fs,           \* the filesystem: normalised path -> file content
    pre,          \* fs as it was when the last request was dispatched
    op,           \* the last request: [kind, name, body]
    res,          \* its response: [status, msg, text]
    listing,      \* the JSON array it carried (GET /notes), up to order
    everCreated,  \* names for which POST /write has answered 201
    reqs,         \* concurrent model: client -> request in flight
    base          \* concurrent model: fs when the current batch arrived

vars == <<fs, pre, op, res, listing, everCreated, reqs, base>>

----------------------------------------------------------------------------
(* Bounds of the model. *)

NumNames == 5
NumTexts == 4
NumClients == 2
NumConcNames == 2
NumConcTexts == 2

----------------------------------------------------------------------------
(* JavaScript values that reach the handlers. *)

Str(s) == [t |-> "string", v |-> s]
Undefined == [t |-> "undefined", v |-> <<>>]
Obj == [t |-> "object", v |-> <<>>]

\* The unit "D800" is a high surrogate, "DC00" a low surrogate; together
\* they are the scalar "10000"; alone, either is not a character.
HighSurrogates == {"D800"}
LowSurrogates == {"DC00"}

NameList ==
    << <<"a">>,
       <<".", "/", "a">>,
       <<".", "t", "x", "t", "a">>,
       <<"b", "/", "a">>,
       <<>>,
       <<"b", "/", ".", ".", "/", "a">> >>

TextList ==
    << <<"x">>,
       <<"D800", "DC00">>,
       <<"DC00">>,
       <<>>,
       <<"y">>,
       <<"DC00", "x">> >>

Min(a, b) == IF a < b THEN a ELSE b

Names == {NameList[i] : i \in 1..Min(NumNames, Len(NameList))}
Texts == {TextList[i] : i \in 1..Min(NumTexts, Len(TextList))}

\* The names and texts the concurrent clients use.
ConcNameList ==
    << <<"a">>,
       <<"b", "/", "a">>,
       <<".", "/", "a">> >>

ConcNames == {ConcNameList[i] : i \in 1..Min(NumConcNames, Len(ConcNameList))}
ConcTexts == {TextList[i] : i \in 1..Min(NumConcTexts, Len(TextList))}

\* req.params.noteName: the route /notes/:noteName matches one or more
\* characters, and Express percent-decodes them ("%2F" becomes "/").
ParamNames == Names \ {<<>>}

\* req.body.note_name and req.body.note of POST /write: a form field or a
\* member of a JSON body (express.json()), so any string can arrive.
FieldValues(S) == {Str(s) : s \in S} \cup {Undefined}

\* req.body of PUT /notes/:noteName: a string when express.text() parsed
\* the body (in the charset the request names, so any string can arrive),
\* the object left by the other parsers otherwise.
PutBodies == {Str(s) : s \in Texts} \cup {Obj}

----------------------------------------------------------------------------
(* Strings. *)

\* No unpaired surrogate: the string is well-formed UTF-16.
RECURSIVE WellFormed(_)
WellFormed(s) ==
    IF s = <<>> THEN TRUE
    ELSE IF s[1] \in HighSurrogates
         THEN Len(s) >= 2 /\ s[2] \in LowSurrogates
              /\ WellFormed(SubSeq(s, 3, Len(s)))
    ELSE IF s[1] \in LowSurrogates THEN FALSE
    ELSE WellFormed(Tail(s))

\* A faulty encoder, which takes a surrogate pair for two unpaired
\* surrogates.
RECURSIVE Utf8EncodePairsSplit(_)
Utf8EncodePairsSplit(s) ==
    IF s = <<>> THEN <<>>
    ELSE IF s[1] \in HighSurrogates \cup LowSurrogates
         THEN <<"FFFD">> \o Utf8EncodePairsSplit(Tail(s))
    ELSE <<s[1]>> \o Utf8EncodePairsSplit(Tail(s))

\* Buffer.from(string, 'utf8'), as fs.writeFileSync does for a string: a
\* surrogate pair becomes one scalar, an unpaired surrogate U+FFFD.
RECURSIVE Utf8Encode(_)
Utf8Encode(s) ==
    IF s = <<>> THEN <<>>
    ELSE IF s[1] \in HighSurrogates /\ Len(s) >= 2 /\ s[2] \in LowSurrogates
         THEN <<"10000">> \o Utf8Encode(SubSeq(s, 3, Len(s)))
    ELSE IF s[1] \in HighSurrogates \cup LowSurrogates
         THEN <<"FFFD">> \o Utf8Encode(Tail(s))
    ELSE <<s[1]>> \o Utf8Encode(Tail(s))

\* buffer.toString('utf8'), as fs.readFileSync(path, 'utf8') does.
RECURSIVE Utf8Decode(_)
Utf8Decode(b) ==
    IF b = <<>> THEN <<>>
    ELSE IF b[1] = "10000"
         THEN <<"D800", "DC00">> \o Utf8Decode(Tail(b))
    ELSE <<b[1]>> \o Utf8Decode(Tail(b))

TxtSuffix == <<".", "t", "x", "t">>

\* String.prototype.endsWith
EndsWith(s, suf) ==
    Len(s) >= Len(suf) /\ SubSeq(s, Len(s) - Len(suf) + 1, Len(s)) = suf

\* String.prototype.indexOf, 1-based; 0 when pat does not occur.
IndexOf(s, pat) ==
    LET hits == {i \in 1..(Len(s) - Len(pat) + 1) :
                    SubSeq(s, i, i + Len(pat) - 1) = pat}
    IN IF hits = {} THEN 0
       ELSE CHOOSE i \in hits : \A j \in hits : i <= j

\* String.prototype.replace(pat, '') with a string pattern: only the first
\* occurrence is replaced.
ReplaceFirst(s, pat) ==
    LET i == IndexOf(s, pat)
    IN IF i = 0 THEN s
       ELSE SubSeq(s, 1, i - 1) \o SubSeq(s, i + Len(pat), Len(s))

----------------------------------------------------------------------------
(* Paths. *)

\* __dirname and path.join(__dirname, 'cache').
DirName == << <<"app">> >>
CACHE_DIR == DirName \o << <<"cache">> >>

\* The directories that exist; no handler creates or removes one.
Dirs == {<<>>, DirName, CACHE_DIR}

\* s.split('/')
RECURSIVE SplitSep(_)
SplitSep(s) ==
    LET i == IndexOf(s, <<"/">>)
    IN IF i = 0 THEN <<s>>
       ELSE <<SubSeq(s, 1, i - 1)>> \o SplitSep(SubSeq(s, i + 1, Len(s)))

\* path.normalize over the segments: "" and "." vanish, ".." removes the
\* segment before it (and stays at the root).
RECURSIVE NormalizeSegs(_, _)
NormalizeSegs(acc, segs) ==
    IF segs = <<>> THEN acc
    ELSE LET h == Head(segs)
         IN IF h = <<>> \/ h = <<".">> THEN NormalizeSegs(acc, Tail(segs))
            ELSE IF h = <<".", ".">>
                 THEN NormalizeSegs(IF acc = <<>> THEN acc
                                    ELSE SubSeq(acc, 1, Len(acc) - 1),
                                    Tail(segs))
            ELSE NormalizeSegs(Append(acc, h), Tail(segs))

\* path.join(dir, s)
PathJoin(dir, s) == NormalizeSegs(dir, SplitSep(s))

\* path.join(CACHE_DIR, `${name}.txt`)
NotePath(name) == PathJoin(CACHE_DIR, name \o TxtSuffix)

Parent(p) == SubSeq(p, 1, Len(p) - 1)

----------------------------------------------------------------------------
(* The fs calls. *)

EmptyFs == [p \in {} |-> <<>>]

existsSync(f, p) == p \in DOMAIN f \/ p \in Dirs

\* A faulty write, which appends to the file instead of replacing it.
writeFileSyncAppend(f, p, data) ==
    IF Parent(p) \notin Dirs \/ p \in Dirs
    THEN [threw |-> TRUE, fs |-> f]
    ELSE [threw |-> FALSE,
          fs |-> [q \in DOMAIN f \cup {p} |->
                    IF q = p
                    THEN (IF p \in DOMAIN f THEN f[p] ELSE <<>>)
                         \o Utf8Encode(data)
                    ELSE f[q]]]

\* fs.writeFileSync(p, data): throws when p's directory does not exist or
\* p is a directory; otherwise the file holds exactly the encoded data.
writeFileSync(f, p, data) ==
    IF Parent(p) \notin Dirs \/ p \in Dirs
    THEN [threw |-> TRUE, fs |-> f]
    ELSE [threw |-> FALSE,
          fs |-> [q \in DOMAIN f \cup {p} |->
                    IF q = p THEN Utf8Encode(data) ELSE f[q]]]

readFileSync(f, p) == Utf8Decode(f[p])

\* A faulty unlink, which removes nothing.
unlinkSyncNothing(f, p) == f

unlinkSync(f, p) == [q \in DOMAIN f \ {p} |-> f[q]]

\* fs.readdirSync(dir): the names of the entries of dir.
readdirSync(f, dir) ==
    {p[Len(p)] : p \in {q \in DOMAIN f : Parent(q) = dir}}

----------------------------------------------------------------------------
(* The handlers: fs before and the request in, response and fs after out. *)

NoText == <<>>

Response(status, msg, text, f) ==
    [status |-> status, msg |-> msg, text |-> text, fs |-> f]

\* app.get('/notes/:noteName')
GetNote(f, noteName) ==
    LET notePath == NotePath(noteName)
    IN IF ~existsSync(f, notePath)
       THEN Response(404, "Note not found", NoText, f)
       ELSE Response(200, "", readFileSync(f, notePath), f)

\* app.put('/notes/:noteName')
PutNote(f, noteName, body) ==
    LET notePath == NotePath(noteName)
    IN IF ~existsSync(f, notePath)
       THEN Response(404, "Note not found", NoText, f)
       ELSE IF body.t # "string"
       THEN Response(400, "Invalid request body", NoText, f)
       ELSE LET w == writeFileSync(f, notePath, body.v)
            IN IF w.threw
               THEN Response(500, "Internal Server Error", NoText, w.fs)
               ELSE Response(200, "Note updated", NoText, w.fs)

\* app.delete('/notes/:noteName')
DeleteNote(f, noteName) ==
    LET notePath == NotePath(noteName)
    IN IF ~existsSync(f, notePath)
       THEN Response(404, "Note not found", NoText, f)
       ELSE Response(200, "Note deleted", NoText, unlinkSync(f, notePath))

\* One element of the array of GET /notes, for the directory entry file.
ListEntry(f, file) ==
    [name |-> ReplaceFirst(file, TxtSuffix),
     text |-> readFileSync(f, PathJoin(CACHE_DIR, file))]

ListedFiles(f) == {file \in readdirSync(f, CACHE_DIR) : EndsWith(file, TxtSuffix)}

\* app.get('/notes'): the array up to order, as the number of times each
\* {name, text} occurs in it.
ListNotes(f) ==
    LET entries == {ListEntry(f, file) : file \in ListedFiles(f)}
    IN [e \in entries |->
          Cardinality({file \in ListedFiles(f) : ListEntry(f, file) = e})]

\* `!x` for the values a field can have.
Falsy(x) == x.t = "undefined" \/ (x.t = "string" /\ x.v = <<>>)

\* A faulty POST /write, which does not test whether the file exists.
PostWriteNoExistsCheck(f, name, note) ==
    IF Falsy(name) \/ Falsy(note)
    THEN Response(400, "Missing note_name or note", NoText, f)
    ELSE LET w == writeFileSync(f, NotePath(name.v), note.v)
         IN IF w.threw
            THEN Response(500, "Internal Server Error", NoText, w.fs)
            ELSE Response(201, "Note created", NoText, w.fs)

\* A faulty POST /write, which tests whether the file exists before it
\* tests the fields.
PostWriteExistsFirst(f, name, note) ==
    IF name.t = "string" /\ existsSync(f, NotePath(name.v))
    THEN Response(400, "Note already exists", NoText, f)
    ELSE IF Falsy(name) \/ Falsy(note)
    THEN Response(400, "Missing note_name or note", NoText, f)
    ELSE LET w == writeFileSync(f, NotePath(name.v), note.v)
         IN IF w.threw
            THEN Response(500, "Internal Server Error", NoText, w.fs)
            ELSE Response(201, "Note created", NoText, w.fs)

\* app.post('/write')
PostWrite(f, name, note) ==
    IF Falsy(name) \/ Falsy(note)
    THEN Response(400, "Missing note_name or note", NoText, f)
    ELSE LET filePath == NotePath(name.v)
         IN IF existsSync(f, filePath)
            THEN Response(400, "Note already exists", NoText, f)
            ELSE LET w == writeFileSync(f, filePath, note.v)
                 IN IF w.threw
                    THEN Response(500, "Internal Server Error", NoText, w.fs)
                    ELSE Response(201, "Note created", NoText, w.fs)

----------------------------------------------------------------------------
(* The server handling one request at a time. *)

NoListing == [e \in {} |-> 0]
NoReqs == [c \in 1..NumClients |->
             [kind |-> "idle", name |-> Undefined, body |-> Undefined,
              pc |-> "idle", status |-> 0]]

Init ==
    /\ fs = EmptyFs
    /\ pre = EmptyFs
    /\ op = [kind |-> "none", name |-> Undefined, body |-> Undefined]
    /\ res = [status |-> 0, msg |-> "", text |-> NoText]
    /\ listing = NoListing
    /\ everCreated = {}
    /\ reqs = NoReqs
    /\ base = EmptyFs

Respond(kind, name, body, r) ==
    /\ pre' = fs
    /\ fs' = r.fs
    /\ op' = [kind |-> kind, name |-> name, body |-> body]
    /\ res' = [status |-> r.status, msg |-> r.msg, text |-> r.text]
    /\ listing' = IF kind = "list" THEN ListNotes(fs) ELSE NoListing

Get ==
    \E n \in ParamNames :
        /\ Respond("get", Str(n), Undefined, GetNote(fs, n))
        /\ UNCHANGED <<everCreated, reqs, base>>

Put ==
    \E n \in ParamNames, b \in PutBodies :
        /\ Respond("update", Str(n), b, PutNote(fs, n, b))
        /\ UNCHANGED <<everCreated, reqs, base>>

Delete ==
    \E n \in ParamNames :
        /\ Respond("delete", Str(n), Undefined, DeleteNote(fs, n))
        /\ UNCHANGED <<everCreated, reqs, base>>

List ==
    /\ Respond("list", Undefined, Undefined,
               Response(200, "", NoText, fs))
    /\ UNCHANGED <<everCreated, reqs, base>>

Write ==
    \E name \in FieldValues(Names), note \in FieldValues(Texts) :
        LET r == PostWrite(fs, name, note)
        IN /\ Respond("create", name, note, r)
           /\ everCreated' = IF r.status = 201
                             THEN everCreated \cup {name.v}
                             ELSE everCreated
           /\ UNCHANGED <<reqs, base>>

Next == Get \/ Put \/ Delete \/ List \/ Write

Spec == Init /\ [][Next]_vars

----------------------------------------------------------------------------
(* The note store the handlers are meant to implement: the storage root   *)
(* holds one file <name>.txt per note, the name taken verbatim.           *)

NoteFile(n) == Append(CACHE_DIR, n \o TxtSuffix)

IsEntryName(n) == n # <<>> /\ \A i \in 1..Len(n) : n[i] # "/"

\* A note named n is currently stored in f.
Stored(f, n) == IsEntryName(n) /\ NoteFile(n) \in DOMAIN f

StripSuffix(s, pat) ==
    IF EndsWith(s, pat) THEN SubSeq(s, 1, Len(s) - Len(pat)) ELSE s

StoredNames(f) ==
    {StripSuffix(file, TxtSuffix) :
        file \in {e \in readdirSync(f, CACHE_DIR) : EndsWith(e, TxtSuffix)}}

EmptyOrAbsent(x) == x = Undefined \/ x = Str(<<>>)

NonEmptyTexts == Texts \ {<<>>}

\* Every file but the one at p is in g what it is in f.
SameElsewhere(f, g, p) ==
    /\ DOMAIN f \ {p} = DOMAIN g \ {p}
    /\ \A q \in DOMAIN f \ {p} : g[q] = f[q]

CreateSucceeded == op.kind = "create" /\ res.status = 201

----------------------------------------------------------------------------
(* C1 *)

\* C1, as stated: whenever POST /write has just answered 201 for (name,
\* text), GET /notes/name answers 200 with exactly text.
C1_RoundTripAnyString ==
    CreateSucceeded =>
        LET g == GetNote(fs, op.name.v)
        IN g.status = 200 /\ g.text = op.body.v

\* C1, amended: whenever POST /write has just answered 201 for (name, text)
\* and text has no unpaired surrogate, GET /notes/name answers 200 with
\* exactly text.
C1_RoundTripWellFormed ==
    (CreateSucceeded /\ WellFormed(op.body.v)) =>
        LET g == GetNote(fs, op.name.v)
        IN g.status = 200 /\ g.text = op.body.v

C1_Witness ==
    /\ CreateSucceeded
    /\ op.body.v = <<"D800", "DC00">>
    /\ GetNote(fs, op.name.v).text = <<"D800", "DC00">>

----------------------------------------------------------------------------
(* C2 *)

\* C2: once POST /write has answered 201 for (name, t1), a POST /write for
\* (name, t2) with any non-empty t2 answers 400 "Note already exists" and
\* changes nothing, the file of name holding the encoding of t1; and every
\* POST /write with non-empty fields whose file existed answered 400 and
\* changed nothing.
C2_SecondCreateRejected ==
    /\ CreateSucceeded =>
          \A t2 \in NonEmptyTexts :
              LET r == PostWrite(fs, op.name, Str(t2))
              IN /\ r.status = 400
                 /\ r.msg = "Note already exists"
                 /\ r.fs = fs
                 /\ fs[NotePath(op.name.v)] = Utf8Encode(op.body.v)
    /\ (/\ op.kind = "create"
        /\ ~EmptyOrAbsent(op.name)
        /\ ~EmptyOrAbsent(op.body)
        /\ Stored(pre, op.name.v)) =>
          /\ res.status = 400
          /\ res.msg = "Note already exists"
          /\ fs = pre

C2_Witness ==
    /\ op.kind = "create"
    /\ Stored(pre, op.name.v)
    /\ ~EmptyOrAbsent(op.body)
    /\ pre[NoteFile(op.name.v)] # Utf8Encode(op.body.v)
    /\ res.status = 400
    /\ fs = pre

----------------------------------------------------------------------------
(* C3 *)

\* C3: a PUT /notes/name for a name that is not stored answers 404 and
\* leaves every file as it was.
C3_UpdateAbsentIsNotFound ==
    (op.kind = "update" /\ ~Stored(pre, op.name.v)) =>
        (res.status = 404 /\ fs = pre)

----------------------------------------------------------------------------
(* C4 *)

\* C4: GET and DELETE /notes/name answer 404 for every name under which no
\* POST /write has ever answered 201.
C4_NeverCreatedIsNotFound ==
    (op.kind \in {"get", "delete"} /\ op.name.v \notin everCreated) =>
        res.status = 404

----------------------------------------------------------------------------
(* C5 *)

\* C5: no two distinct names refer to the same stored file.
C5_NamesDoNotCollide ==
    \A n1 \in ParamNames, n2 \in ParamNames :
        (n1 # n2 /\ NotePath(n1) \in DOMAIN fs) => NotePath(n1) # NotePath(n2)

----------------------------------------------------------------------------
(* C6 *)

\* C6: GET /notes returns exactly one {name, text} for each stored note,
\* name being the note's name and text its current content.
C6_ListIsTheStoredNotes ==
    op.kind = "list" =>
        listing = [e \in {[name |-> n, text |-> readFileSync(fs, NoteFile(n))] :
                             n \in StoredNames(fs)} |-> 1]

----------------------------------------------------------------------------
(* C7 *)

\* C7: a POST /write whose note_name or note is empty or absent answers 400
\* "Missing note_name or note" and leaves every file as it was, also when
\* the named note is stored.
C7_InvalidInputStoresNothing ==
    (op.kind = "create" /\ (EmptyOrAbsent(op.name) \/ EmptyOrAbsent(op.body))) =>
        /\ res.status = 400
        /\ res.msg = "Missing note_name or note"
        /\ fs = pre

C7_Witness ==
    /\ op.kind = "create"
    /\ op.name.t = "string"
    /\ Stored(pre, op.name.v)
    /\ EmptyOrAbsent(op.body)
    /\ res.status = 400

----------------------------------------------------------------------------
(* C8 *)

\* C8: a DELETE /notes/name for a stored name answers 200, after which GET
\* /notes/name answers 404 and every other stored note is stored with the
\* content it had.
C8_DeleteStored ==
    (op.kind = "delete" /\ Stored(pre, op.name.v)) =>
        /\ res.status = 200
        /\ GetNote(fs, op.name.v).status = 404
        /\ SameElsewhere(pre, fs, NoteFile(op.name.v))

C8_Witness ==
    /\ op.kind = "delete"
    /\ Stored(pre, op.name.v)
    /\ StoredNames(pre) \ {op.name.v} # {}
    /\ res.status = 200

----------------------------------------------------------------------------
(* C9 *)

UpdateOfStored == op.kind = "update" /\ Stored(pre, op.name.v)

\* C9, as stated: a PUT /notes/name for a stored name answers 200 for every
\* string body, GET /notes/name then returns exactly the body, and no other
\* file changes; a body that is no string answers 400 and changes nothing.
C9_UpdateAnyString ==
    UpdateOfStored =>
        IF op.body.t = "string"
        THEN /\ res.status = 200
             /\ GetNote(fs, op.name.v).status = 200
             /\ GetNote(fs, op.name.v).text = op.body.v
             /\ SameElsewhere(pre, fs, NoteFile(op.name.v))
        ELSE res.status = 400 /\ fs = pre

\* C9, amended: the same, the body returned exactly being claimed only of
\* a body without unpaired surrogate; any string body answers 200 and
\* replaces the whole content by its encoding.
C9_UpdateWellFormed ==
    UpdateOfStored =>
        IF op.body.t = "string"
        THEN /\ res.status = 200
             /\ fs[NoteFile(op.name.v)] = Utf8Encode(op.body.v)
             /\ GetNote(fs, op.name.v).status = 200
             /\ WellFormed(op.body.v) =>
                    GetNote(fs, op.name.v).text = op.body.v
             /\ SameElsewhere(pre, fs, NoteFile(op.name.v))
        ELSE res.status = 400 /\ fs = pre

C9_Witness ==
    /\ UpdateOfStored
    /\ op.body.t = "string"
    /\ WellFormed(op.body.v)
    /\ pre[NoteFile(op.name.v)] # <<>>
    /\ pre[NoteFile(op.name.v)] # Utf8Encode(op.body.v)
    /\ StoredNames(pre) \ {op.name.v} # {}
    /\ GetNote(fs, op.name.v).text = op.body.v

----------------------------------------------------------------------------
(* The server with requests in flight together.  A request arrives, waits *)
(* while its body is read (the parsers and multer().none() are            *)
(* asynchronous), and then its handler runs: every call in a handler is   *)
(* synchronous, so the handler is one step.  A batch is a set of requests *)
(* that were all in flight before the first of them was handled.          *)

Clients == 1..NumClients

Request(kind, name, body) ==
    [kind |-> kind, name |-> name, body |-> body, pc |-> "pending", status |-> 0]

ConcRequests ==
    {Request("create", Str(n), Str(t)) : n \in ConcNames, t \in ConcTexts}
    \cup {Request("update", Str(n), Str(t)) : n \in ConcNames, t \in ConcTexts}
    \cup {Request("delete", Str(n), Undefined) : n \in ConcNames}

\* A faulty server, whose handlers yield between the existence check and
\* the write: the check sees the files as they were when the batch arrived.
ServeStale(f, rq) ==
    LET p == NotePath(rq.name.v)
        r == CASE rq.kind = "create" -> PostWrite(base, rq.name, rq.body)
               [] rq.kind = "update" -> PutNote(base, rq.name.v, rq.body)
               [] rq.kind = "delete" -> DeleteNote(base, rq.name.v)
    IN IF r.status \notin {200, 201} THEN [r EXCEPT !.fs = f]
       ELSE IF rq.kind = "delete" THEN [r EXCEPT !.fs = unlinkSync(f, p)]
       ELSE [r EXCEPT !.fs = writeFileSync(f, p, rq.body.v).fs]

\* The route of a request: its handler, run on the files as they are now.
Serve(f, rq) ==
    CASE rq.kind = "create" -> PostWrite(f, rq.name, rq.body)
      [] rq.kind = "update" -> PutNote(f, rq.name.v, rq.body)
      [] rq.kind = "delete" -> DeleteNote(f, rq.name.v)

Arrive(c) ==
    /\ reqs[c].pc = "idle"
    /\ \A d \in Clients : reqs[d].pc # "done"
    /\ \E rq \in ConcRequests : reqs' = [reqs EXCEPT ![c] = rq]
    /\ UNCHANGED <<fs, pre, op, res, listing, everCreated, base>>

Handle(c) ==
    /\ reqs[c].pc = "pending"
    /\ LET r == Serve(fs, reqs[c])
       IN /\ fs' = r.fs
          /\ reqs' = [reqs EXCEPT ![c].pc = "done", ![c].status = r.status]
    /\ UNCHANGED <<pre, op, res, listing, everCreated, base>>

NewBatch ==
    /\ \E c \in Clients : reqs[c].pc = "done"
    /\ \A c \in Clients : reqs[c].pc # "pending"
    /\ reqs' = NoReqs
    /\ base' = fs
    /\ UNCHANGED <<fs, pre, op, res, listing, everCreated>>

NextConc ==
    \/ \E c \in Clients : Arrive(c)
    \/ \E c \in Clients : Handle(c)
    \/ NewBatch

SpecConc == Init /\ [][NextConc]_vars

----------------------------------------------------------------------------
(* C10 *)

\* The batch is c1 and c2 and both have been answered.
BatchDone(c1, c2) ==
    /\ c1 # c2
    /\ reqs[c1].pc = "done"
    /\ reqs[c2].pc = "done"
    /\ \A d \in Clients \ {c1, c2} : reqs[d].pc = "idle"

\* c1 and c2 were creates of one name, with non-empty fields, whose file
\* did not exist when they arrived.
RacingCreates(c1, c2) ==
    /\ BatchDone(c1, c2)
    /\ reqs[c1].kind = "create"
    /\ reqs[c2].kind = "create"
    /\ reqs[c1].name = reqs[c2].name
    /\ ~EmptyOrAbsent(reqs[c1].name)
    /\ ~EmptyOrAbsent(reqs[c1].body)
    /\ ~EmptyOrAbsent(reqs[c2].body)
    /\ ~existsSync(base, NotePath(reqs[c1].name.v))

\* One of c1, c2 was answered 201, the other 400, and the file holds the
\* text of the one answered 201.
OneCreated(c1, c2) ==
    \E w \in {c1, c2} :
        /\ reqs[w].status = 201
        /\ \A l \in {c1, c2} \ {w} : reqs[l].status = 400
        /\ NotePath(reqs[w].name.v) \in DOMAIN fs
        /\ fs[NotePath(reqs[w].name.v)] = Utf8Encode(reqs[w].body.v)

\* A delete answered 200 and an update of the same name answered 404 leave
\* no file of that name.
DeleteBeatsUpdate(c1, c2) ==
    (/\ BatchDone(c1, c2)
     /\ reqs[c1].kind = "delete"
     /\ reqs[c2].kind = "update"
     /\ reqs[c1].name = reqs[c2].name
     /\ reqs[c1].status = 200
     /\ reqs[c2].status = 404) =>
        NotePath(reqs[c1].name.v) \notin DOMAIN fs

\* fs.writeFileSync does not throw for the name's file: its directory
\* exists.
Writable(n) == Parent(NotePath(n)) \in Dirs

\* C10, as stated: of two racing creates of one absent name exactly one is
\* answered 201 and the other 400, the file holding the text of the one
\* answered 201; and a delete answered 200 racing an update answered 404
\* leaves no note.
C10_RaceAsStated ==
    \A c1 \in Clients, c2 \in Clients :
        /\ RacingCreates(c1, c2) => OneCreated(c1, c2)
        /\ DeleteBeatsUpdate(c1, c2)

\* C10, amended: the same of two racing creates whose file can be written;
\* when it cannot, both are answered 500 and no file changes.
C10_RaceWritable ==
    \A c1 \in Clients, c2 \in Clients :
        /\ RacingCreates(c1, c2) =>
              IF Writable(reqs[c1].name.v)
              THEN OneCreated(c1, c2)
              ELSE /\ reqs[c1].status = 500
                   /\ reqs[c2].status = 500
                   /\ fs = base
        /\ DeleteBeatsUpdate(c1, c2)

C10_Witness ==
    \E c1 \in Clients, c2 \in Clients :
        /\ RacingCreates(c1, c2)
        /\ reqs[c1].body # reqs[c2].body
        /\ reqs[c1].status = 201
        /\ reqs[c2].status = 400
        /\ fs[NotePath(reqs[c1].name.v)] = Utf8Encode(reqs[c1].body.v)

====
